---- MODULE Spec2Model ----
(***************************************************************************)
(* Upload handlers (video, thumbnail) and the signed-URL conversion of the *)
(* video service.  Strings are sequences of tokens; the separator "," is   *)
(* a token of its own, so that formatting and splitting are computed.      *)
(* A nullable *string is a sequence of length 0 (nil) or 1.                *)
(***************************************************************************)
EXTENDS Integers, Sequences, FiniteSets, TLC

VARIABLES db, s3, tmpdir, assets, req, updLog, variant, sign, probe

vars == <<db, s3, tmpdir, assets, req, updLog, variant, sign, probe>>

\* ---------------------------------------------------------------- bounds
NumReqs == 2
MaxLen == 4
MaxDim == 24

\* ------------------------------------------------------ program constants
MaxBytes == 1073741824

Reqs == 1..NumReqs
Users == {"u1", "u2"}
Nil == <<>>
Ptr(s) == <<s>>

s3Bucket == <<"bkt">>
s3Region == <<"rgn">>
port == <<"8091">>
TimeHour == "3600s"

\* --------------------------------------------------------------- strings
RECURSIVE Split(_, _)
Split(s, sep) ==
    IF \E i \in 1..Len(s) : s[i] = sep
    THEN LET i == CHOOSE k \in 1..Len(s) :
                      s[k] = sep /\ \A j \in 1..(k - 1) : s[j] /= sep
         IN  <<SubSeq(s, 1, i - 1)>> \o Split(SubSeq(s, i + 1, Len(s)), sep)
    ELSE <<s>>

\* ------------------------------------------------------------ the record
Video(id, owner, vurl, turl) ==
    [ID |-> id, UserID |-> owner, Title |-> "title",
     VideoURL |-> vurl, ThumbnailURL |-> turl]

NoVideo == Video("", "", Nil, Nil)

\* ------------------------------------------------------- signed-URL path
PresignGetObject(bucket, key, expires) ==
    <<"https://">> \o bucket \o <<".s3.amazonaws.com/">> \o key
        \o <<"?X-Amz-Expires=", expires>>

generatePresignedURL(bucket, key, expireTime, presignOK) ==
    IF ~presignOK
    THEN [url |-> <<>>, err |-> <<"presign">>]
    ELSE [url |-> PresignGetObject(bucket, key, expireTime), err |-> Nil]

dbVideoToSignedVideo_atLeastTwo(video, presignOK) ==
    IF video.VideoURL = Nil
    THEN [video |-> video, err |-> Nil, calls |-> <<>>]
    ELSE LET parts == Split(video.VideoURL[1], ",") IN
         IF Len(parts) < 2
         THEN [video |-> video, err |-> Nil, calls |-> <<>>]
         ELSE LET res == generatePresignedURL(parts[1], parts[2], TimeHour, presignOK)
                  call == <<parts[1], parts[2], TimeHour>>
              IN  IF res.err /= Nil
                  THEN [video |-> video, err |-> res.err, calls |-> <<call>>]
                  ELSE [video |-> [video EXCEPT !.VideoURL = Ptr(res.url)],
                        err |-> Nil, calls |-> <<call>>]

dbVideoToSignedVideo_swapped(video, presignOK) ==
    IF video.VideoURL = Nil
    THEN [video |-> video, err |-> Nil, calls |-> <<>>]
    ELSE LET parts == Split(video.VideoURL[1], ",") IN
         IF Len(parts) /= 2
         THEN [video |-> video, err |-> Nil, calls |-> <<>>]
         ELSE LET res == generatePresignedURL(parts[2], parts[1], TimeHour, presignOK)
                  call == <<parts[2], parts[1], TimeHour>>
              IN  IF res.err /= Nil
                  THEN [video |-> video, err |-> res.err, calls |-> <<call>>]
                  ELSE [video |-> [video EXCEPT !.VideoURL = Ptr(res.url)],
                        err |-> Nil, calls |-> <<call>>]

dbVideoToSignedVideo(video, presignOK) ==
    IF video.VideoURL = Nil
    THEN [video |-> video, err |-> Nil, calls |-> <<>>]
    ELSE LET parts == Split(video.VideoURL[1], ",") IN
         IF Len(parts) /= 2
         THEN [video |-> video, err |-> Nil, calls |-> <<>>]
         ELSE LET bucket == parts[1]
                  key == parts[2]
                  res == generatePresignedURL(bucket, key, TimeHour, presignOK)
                  call == <<bucket, key, TimeHour>>
              IN  IF res.err /= Nil
                  THEN [video |-> video, err |-> res.err, calls |-> <<call>>]
                  ELSE [video |-> [video EXCEPT !.VideoURL = Ptr(res.url)],
                        err |-> Nil, calls |-> <<call>>]

\* --------------------------------------------------- request-local state
IdleReq ==
    [pc |-> "idle", kind |-> "none", limit |-> 0, bodySize |-> 0,
     videoID |-> "", userID |-> "", video |-> NoVideo,
     mediaType |-> "", ext |-> "", filename |-> <<>>, destIno |-> 0,
     defers |-> <<>>, trace |-> <<>>,
     status |-> 0, body |-> <<>>, nResp |-> 0, cause |-> ""]

Log(q, op) == [q EXCEPT !.trace = Append(@, op)]

\* a call of a collaborator: op when it returned no error, op! when it failed
Call(q, op, ok) == Log(q, IF ok THEN op ELSE op \o "!")

Defer(q, op) == [q EXCEPT !.defers = Append(@, op)]

\* respondWithError / respondWithJSON: one response written
Respond(q, code, payload, why) ==
    [Log(q, "respond") EXCEPT
        !.status = code, !.body = payload, !.nResp = @ + 1, !.cause = why]

\* deferred calls run last-in first-out when the handler returns
RECURSIVE RunDefers(_)
RunDefers(q) ==
    IF q.defers = <<>> THEN q
    ELSE LET n == Len(q.defers) IN
         RunDefers([q EXCEPT !.defers = SubSeq(@, 1, n - 1),
                             !.trace = Append(@, q.defers[n])])

Return(q) == [RunDefers(q) EXCEPT !.pc = "done"]

Fail(q, code, why) == Return(Respond(q, code, <<>>, why))

Has(q, op) == \E i \in 1..Len(q.trace) : q.trace[i] = op

Called(q, op) == Has(q, op) \/ Has(q, op \o "!")

Pos(q, op) == CHOOSE i \in 1..Len(q.trace) : q.trace[i] = op

Count(q, op) == Cardinality({i \in 1..Len(q.trace) : q.trace[i] = op})

\* ------------------------------------------------------------ file names
TempName(r) == <<"tubely-upload-", ToString(r), ".mp4">>

Hex(r) == "hex" \o ToString(r)

\* the staging directory after a handler returned: os.Remove unlinks
TmpAfter(dir, q, r) ==
    IF Has(q, "os.Remove") THEN dir \ {TempName(r)} ELSE dir

\* ------------------------------------------------------------ media type
Headers == {"video/mp4", "VIDEO/MP4", "video/mp4; codecs=avc1",
            "video/quicktime", ""}

\* mime.ParseMediaType: lower-cases the type, drops parameters, fails on ""
ParseMediaType(h) ==
    CASE h = "video/mp4" -> [mediaType |-> "video/mp4", err |-> Nil]
      [] h = "VIDEO/MP4" -> [mediaType |-> "video/mp4", err |-> Nil]
      [] h = "video/mp4; codecs=avc1" -> [mediaType |-> "video/mp4", err |-> Nil]
      [] h = "video/quicktime" -> [mediaType |-> "video/quicktime", err |-> Nil]
      [] h = "image/png" -> [mediaType |-> "image/png", err |-> Nil]
      [] h = "IMAGE/PNG" -> [mediaType |-> "image/png", err |-> Nil]
      [] h = "image/gif" -> [mediaType |-> "image/gif", err |-> Nil]
      [] OTHER -> [mediaType |-> "", err |-> <<"mime: no media type">>]

\* --------------------------------------------------------- collaborators
\* auth.GetBearerToken + auth.ValidateJWT: the credential a request carries
Tokens == {"none", "invalid"} \cup Users

PathIDs == {"v1", "v0", "bad"}

uuidParse(id) == IF id = "bad" THEN [id |-> "", err |-> <<"invalid UUID">>]
                 ELSE [id |-> id, err |-> Nil]

\* Metadata Store: fetch by id, replace whole record
GetVideo(store, id, fault) ==
    IF id \notin DOMAIN store THEN [video |-> NoVideo, err |-> <<"notfound">>]
    ELSE IF fault THEN [video |-> NoVideo, err |-> <<"store">>]
    ELSE [video |-> store[id], err |-> Nil]

UpdateVideo(store, video) == [store EXCEPT ![video.ID] = video]

\* --------------------------------------------------- handlerUploadVideo
BodySizes == {MaxBytes, MaxBytes + 1}

maxBytesReader_offByOne(q) == [q EXCEPT !.limit = MaxBytes + 1]

\* line 51: http.MaxBytesReader caps the request body
maxBytesReader(q) == [q EXCEPT !.limit = MaxBytes]

\* lines 50-72: body cap, path id, bearer token
videoAuth(q, id, tok) ==
    LET q0 == maxBytesReader([q EXCEPT !.kind = "video"])
        parsed == uuidParse(id)
    IN  IF parsed.err /= Nil THEN Fail(q0, 400, "badid")
        ELSE IF tok = "none" THEN Fail(q0, 401, "nojwt")
        ELSE IF tok = "invalid" THEN Fail(q0, 401, "badjwt")
        ELSE [q0 EXCEPT !.videoID = parsed.id, !.userID = tok]

notOwner_skipped(video, userID) == FALSE

\* line 81: the ownership test
notOwner(video, userID) == video.UserID /= userID

\* lines 74-84: fetch the record, check ownership
videoOwn(q, store, fault) ==
    LET got == GetVideo(store, q.videoID, fault)
        q1 == [Call(q, "GetVideo", got.err = Nil) EXCEPT !.video = got.video]
    IN  IF got.err /= Nil THEN Fail(q1, 404, got.err[1])
        ELSE IF notOwner(got.video, q.userID) THEN Fail(q1, 401, "notowner")
        ELSE [q1 EXCEPT !.pc = "form"]

isMP4_anyVideo(mediaType) == mediaType \in {"video/mp4", "video/quicktime"}

\* line 101: the one accepted media type
isMP4(mediaType) == mediaType = "video/mp4"

\* lines 86-104: r.FormFile reads the whole capped body, then the media type
videoForm(q, size, present, header) ==
    LET q0 == [q EXCEPT !.bodySize = size] IN
    IF size > q0.limit THEN Fail(q0, 400, "toolarge")
    ELSE IF ~present THEN Fail(q0, 400, "noform")
    ELSE LET q1 == Defer(q0, "file.Close")
             mt == ParseMediaType(header)
         IN  IF mt.err /= Nil THEN Fail(q1, 400, "badct")
             ELSE LET q2 == [q1 EXCEPT !.mediaType = mt.mediaType] IN
                  IF ~isMP4(mt.mediaType) THEN Fail(q2, 400, "notmp4")
                  ELSE [q2 EXCEPT !.pc = "stage"]

StageFaults == {"none", "createtemp", "copy", "seek", "rand"}

videoTempDefers_swapped(q) == Defer(Defer(q, "tempFile.Close"), "os.Remove")

\* lines 112-113: the two deferred calls, in the order they are deferred
videoTempDefers(q) == Defer(Defer(q, "os.Remove"), "tempFile.Close")

\* lines 106-136: temp file, copy, rewind, random key
videoStage(q, r, fault) ==
    LET q0 == Call(q, "os.CreateTemp", fault /= "createtemp") IN
    IF fault = "createtemp" THEN Fail(q0, 500, "createtemp")
    ELSE LET q1 == Call(videoTempDefers(q0), "io.Copy", fault /= "copy") IN
         IF fault = "copy" THEN Fail(q1, 500, "copy")
         ELSE LET q2 == Call(q1, "Seek", fault /= "seek") IN
              IF fault = "seek" THEN Fail(q2, 500, "seek")
              ELSE LET q3 == Call(q2, "rand.Read", fault /= "rand") IN
                   IF fault = "rand" THEN Fail(q3, 500, "rand")
                   ELSE [q3 EXCEPT !.filename = <<Hex(r), ".mp4">>,
                                   !.pc = "put"]

videoPut_noReturn(q, ok) ==
    LET q1 == Call(q, "PutObject", ok) IN
    IF ~ok THEN [Respond(q1, 500, <<>>, "put") EXCEPT !.pc = "update"]
    ELSE [q1 EXCEPT !.pc = "update"]

\* lines 138-148: PutObject
videoPut(q, ok) ==
    LET q1 == Call(q, "PutObject", ok) IN
    IF ~ok THEN Fail(q1, 500, "put")
    ELSE [q1 EXCEPT !.pc = "update"]

videoLocation_fixedKey(bucket, region, filename) ==
    <<"https://">> \o bucket \o <<".s3.">> \o region
        \o <<".amazonaws.com/">> \o <<"upload", ".mp4">>

\* line 151: the location string stored in the record
videoLocation(bucket, region, filename) ==
    <<"https://">> \o bucket \o <<".s3.">> \o region
        \o <<".amazonaws.com/">> \o filename

\* lines 150-161: set the location, persist, respond
videoUpdate_ignoreErr(q, ok) ==
    LET v == [q.video EXCEPT
                 !.VideoURL = Ptr(videoLocation(s3Bucket, s3Region, q.filename))]
        q1 == Call([q EXCEPT !.video = v], "UpdateVideo", ok)
    IN  Return(Respond(q1, 200, <<v>>, ""))

videoUpdate(q, ok) ==
    LET v == [q.video EXCEPT
                 !.VideoURL = Ptr(videoLocation(s3Bucket, s3Region, q.filename))]
        q1 == Call([q EXCEPT !.video = v], "UpdateVideo", ok)
    IN  IF ~ok THEN Fail(q1, 500, "store")
        ELSE Return(Respond(q1, 200, <<v>>, ""))

\* a handler that already returned takes no further step
Then(q, next) == IF q.pc = "done" THEN q ELSE next

\* what a step of the video handler that ends in state q leaves behind
VideoEffects(r, q) ==
    /\ req' = [req EXCEPT ![r] = q]
    /\ s3' = IF Has(q, "PutObject") /\ ~Has(req[r], "PutObject")
             THEN s3 \cup {[Bucket |-> s3Bucket, Key |-> q.filename,
                            ContentType |-> q.mediaType, by |-> r]}
             ELSE s3
    /\ tmpdir' = IF Has(q, "os.CreateTemp")
                 THEN TmpAfter(tmpdir \cup {TempName(r)}, q, r)
                 ELSE tmpdir

\* lines 50-84: everything up to and including the read of the store
VideoBegin(r) ==
    /\ req[r].pc = "idle"
    /\ \E id \in PathIDs, tok \in Tokens :
          LET q1 == videoAuth(req[r], id, tok) IN
          IF q1.pc = "done" THEN VideoEffects(r, q1)
          ELSE \E fault \in BOOLEAN : VideoEffects(r, videoOwn(q1, db, fault))
    /\ UNCHANGED <<db, assets, updLog, variant, sign, probe>>

\* lines 86-148: form, media type, staging, up to and including PutObject
VideoUpload(r) ==
    /\ req[r].pc = "form"
    /\ \E size \in BodySizes, present \in BOOLEAN, header \in Headers :
          LET q1 == videoForm(req[r], size, present, header) IN
          IF q1.pc = "done" THEN VideoEffects(r, q1)
          ELSE \E fault \in StageFaults :
                  LET q2 == videoStage(q1, r, fault) IN
                  IF q2.pc = "done" THEN VideoEffects(r, q2)
                  ELSE \E putOK \in BOOLEAN : VideoEffects(r, videoPut(q2, putOK))
    /\ UNCHANGED <<db, assets, updLog, variant, sign, probe>>

\* lines 150-161: the write of the store and the response
VideoUpdate(r) ==
    /\ req[r].pc = "update" /\ req[r].kind = "video"
    /\ \E ok \in BOOLEAN :
          LET q == videoUpdate(req[r], ok) IN
          /\ VideoEffects(r, q)
          /\ db' = IF ok THEN UpdateVideo(db, q.video) ELSE db
          /\ updLog' = Append(updLog, [by |-> r, kind |-> "video",
                                       user |-> q.userID, ok |-> ok,
                                       video |-> q.video,
                                       before |-> db[q.video.ID]])
    /\ UNCHANGED <<assets, variant, sign, probe>>

\* ------------------------------------------------ the asset directory
\* a directory entry names an inode; by = last writer, full = whole payload
osCreate(fs, path, r) ==
    IF path \in DOMAIN fs
    THEN [fs EXCEPT ![path] = [@ EXCEPT !.by = 0, !.full = FALSE]]
    ELSE (path :> [ino |-> r, creator |-> r, by |-> 0, full |-> FALSE]) @@ fs

ioCopy(fs, path, ino, r, ok) ==
    IF path \in DOMAIN fs /\ fs[path].ino = ino
    THEN [fs EXCEPT ![path] = [@ EXCEPT !.by = r, !.full = ok]]
    ELSE fs

osRemove(fs, path) == [p \in DOMAIN fs \ {path} |-> fs[p]]

\* ------------------------------------------------ handlerUploadThumbnail
ThumbHeaders == {"image/png", "IMAGE/PNG", "image/gif", ""}

FormResults == {"ok", "badform", "nofield"}

B64(r) == "b64" \o ToString(r)

\* part_001 lines 50-65: extension from the raw header (variant a)
thumbExtA(q, header) ==
    CASE header = "image/jpeg" -> [q EXCEPT !.mediaType = header, !.ext = ".jpg"]
      [] header = "image/png" -> [q EXCEPT !.mediaType = header, !.ext = ".png"]
      [] header = "image/gif" -> [q EXCEPT !.mediaType = header, !.ext = ".gif"]
      [] header = "application/pdf" -> [q EXCEPT !.mediaType = header, !.ext = ".pdf"]
      [] OTHER -> Fail([q EXCEPT !.mediaType = header], 400, "badtype")

\* part_001 lines 167-184: extension from the parsed media type (variant b)
thumbExtB(q, header) ==
    LET mt == ParseMediaType(header) IN
    IF mt.err /= Nil THEN Fail(q, 400, "badct")
    ELSE CASE mt.mediaType = "image/jpeg" ->
                  [q EXCEPT !.mediaType = mt.mediaType, !.ext = ".jpg"]
           [] mt.mediaType = "image/png" ->
                  [q EXCEPT !.mediaType = mt.mediaType, !.ext = ".png"]
           [] OTHER -> Fail([q EXCEPT !.mediaType = mt.mediaType], 400, "badtype")

\* part_002 lines 49-57: raw header kept, payload read into memory (variant c)
thumbReadC(q, header, readOK) ==
    LET q0 == [q EXCEPT !.mediaType = header] IN
    IF ~readOK THEN Fail(Call(q0, "io.ReadAll", FALSE), 500, "read")
    ELSE Call(q0, "io.ReadAll", TRUE)

\* lines 15-48 (a), 132-165 (b), part_002 14-47 (c): id, token, form
thumbAuth(q, id, tok, form) ==
    LET q0 == [q EXCEPT !.kind = "thumb"]
        parsed == uuidParse(id)
    IN  IF parsed.err /= Nil THEN Fail(q0, 400, "badid")
        ELSE IF tok = "none" THEN Fail(q0, 401, "nojwt")
        ELSE IF tok = "invalid" THEN Fail(q0, 401, "badjwt")
        ELSE IF form = "badform" THEN Fail(q0, 400, "badform")
        ELSE IF form = "nofield" THEN Fail(q0, 400, "noform")
        ELSE Defer([q0 EXCEPT !.videoID = parsed.id, !.userID = tok],
                   "file.Close")

\* the content-type step of the variant built into the server
thumbType(q, v, header, readOK) ==
    CASE v = "a" -> thumbExtA(q, header)
      [] v = "b" -> thumbExtB(q, header)
      [] OTHER -> thumbReadC(q, header, readOK)

\* part_001 line 80 (a), lines 198-205 (b): the name of the destination file
thumbName(q, v, r, randOK) ==
    IF v = "a" THEN [q EXCEPT !.filename = <<q.videoID, q.ext>>, !.pc = "create"]
    ELSE IF v = "b"
    THEN IF ~randOK THEN Fail(Call(q, "rand.Read", FALSE), 500, "rand")
         ELSE [Call(q, "rand.Read", TRUE) EXCEPT
                  !.filename = <<B64(r), q.ext>>, !.pc = "create"]
    ELSE [q EXCEPT !.pc = "update"]

thumbOwn_noOwnerCheck(q, v, r, store, fault, randOK) ==
    LET got == GetVideo(store, q.videoID, fault)
        q1 == [Call(q, "GetVideo", got.err = Nil) EXCEPT !.video = got.video]
    IN  IF got.err /= Nil THEN Fail(q1, 404, got.err[1])
        ELSE thumbName(q1, v, r, randOK)

\* lines 67-81 (a), 186-206 (b), part_002 59-69 (c): fetch, ownership, name
thumbOwn(q, v, r, store, fault, randOK) ==
    LET got == GetVideo(store, q.videoID, fault)
        q1 == [Call(q, "GetVideo", got.err = Nil) EXCEPT !.video = got.video]
    IN  IF got.err /= Nil THEN Fail(q1, 404, got.err[1])
        ELSE IF got.video.UserID /= q.userID THEN Fail(q1, 401, "notowner")
        ELSE thumbName(q1, v, r, randOK)

\* lines 83-89 (a), 208-214 (b): os.Create
thumbCreate(q, r, fs, ok) ==
    IF ~ok THEN Fail(Call(q, "os.Create", FALSE), 500, "create")
    ELSE Defer([Call(q, "os.Create", TRUE) EXCEPT
                   !.destIno = osCreate(fs, q.filename, r)[q.filename].ino,
                   !.pc = "copy"],
               "destFile.Close")

\* lines 91-96 (a), 216-221 (b): io.Copy
thumbCopy(q, ok) ==
    IF ~ok THEN Fail(Call(q, "io.Copy", FALSE), 500, "copy")
    ELSE [Call(q, "io.Copy", TRUE) EXCEPT !.pc = "update"]

\* the thumbnail location stored in the record
thumbLocation(q, v) ==
    IF v = "c" THEN <<"data:", q.mediaType, ";base64,", "payload">>
    ELSE <<"http://localhost:">> \o port \o <<"/assets/">> \o q.filename

thumbUpdate_staleBody(q, v, ok) ==
    LET rec == [q.video EXCEPT !.ThumbnailURL = Ptr(thumbLocation(q, v))]
        q1 == Call([q EXCEPT !.video = rec], "UpdateVideo", ok)
    IN  IF ok THEN Return(Respond(q1, 200, <<q.video>>, ""))
        ELSE IF v = "c" THEN Fail(q1, 500, "store")
        ELSE [q1 EXCEPT !.pc = "cleanup"]

\* lines 98-113 (a), 223-238 (b), part_002 71-85 (c): persist and respond
thumbUpdate(q, v, ok) ==
    LET rec == [q.video EXCEPT !.ThumbnailURL = Ptr(thumbLocation(q, v))]
        q1 == Call([q EXCEPT !.video = rec], "UpdateVideo", ok)
    IN  IF ok THEN Return(Respond(q1, 200, <<rec>>, ""))
        ELSE IF v = "c" THEN Fail(q1, 500, "store")
        ELSE [q1 EXCEPT !.pc = "cleanup"]

thumbCleanup_noRemove(q) == Fail(q, 500, "store")

\* lines 105-108 (a), 230-233 (b): remove the file, then answer 500
thumbCleanup(q) == Fail(Log(q, "os.Remove"), 500, "store")

\* everything up to and including the read of the store
ThumbBegin(r) ==
    /\ req[r].pc = "idle"
    /\ \E id \in PathIDs, tok \in Tokens, form \in FormResults :
          LET q1 == thumbAuth(req[r], id, tok, form) IN
          IF q1.pc = "done" THEN req' = [req EXCEPT ![r] = q1]
          ELSE \E header \in ThumbHeaders,
                  readOK \in IF variant = "c" THEN BOOLEAN ELSE {TRUE} :
                  LET q2 == thumbType(q1, variant, header, readOK) IN
                  IF q2.pc = "done" THEN req' = [req EXCEPT ![r] = q2]
                  ELSE \E fault \in BOOLEAN,
                          randOK \in IF variant = "b" THEN BOOLEAN ELSE {TRUE} :
                          req' = [req EXCEPT
                                     ![r] = thumbOwn(q2, variant, r, db, fault, randOK)]
    /\ UNCHANGED <<db, s3, tmpdir, assets, updLog, variant, sign, probe>>

ThumbCreate(r) ==
    /\ req[r].pc = "create"
    /\ \E ok \in BOOLEAN :
          /\ req' = [req EXCEPT ![r] = thumbCreate(req[r], r, assets, ok)]
          /\ assets' = IF ok THEN osCreate(assets, req[r].filename, r) ELSE assets
    /\ UNCHANGED <<db, s3, tmpdir, updLog, variant, sign, probe>>

ThumbCopy(r) ==
    /\ req[r].pc = "copy"
    /\ \E ok \in BOOLEAN :
          /\ req' = [req EXCEPT ![r] = thumbCopy(req[r], ok)]
          /\ assets' = ioCopy(assets, req[r].filename, req[r].destIno, r, ok)
    /\ UNCHANGED <<db, s3, tmpdir, updLog, variant, sign, probe>>

ThumbUpdate(r) ==
    /\ req[r].pc = "update" /\ req[r].kind = "thumb"
    /\ \E ok \in BOOLEAN :
          LET q == thumbUpdate(req[r], variant, ok) IN
          /\ req' = [req EXCEPT ![r] = q]
          /\ db' = IF ok THEN UpdateVideo(db, q.video) ELSE db
          /\ updLog' = Append(updLog, [by |-> r, kind |-> "thumb",
                                       user |-> q.userID, ok |-> ok,
                                       video |-> q.video,
                                       before |-> db[q.video.ID]])
    /\ UNCHANGED <<s3, tmpdir, assets, variant, sign, probe>>

ThumbCleanup(r) ==
    /\ req[r].pc = "cleanup"
    /\ LET q == thumbCleanup(req[r]) IN
       /\ req' = [req EXCEPT ![r] = q]
       /\ assets' = IF Has(q, "os.Remove")
                    THEN osRemove(assets, req[r].filename) ELSE assets
    /\ UNCHANGED <<db, s3, tmpdir, updLog, variant, sign, probe>>

\* ------------------------------------------------------- specifications
Variants == {"a", "b", "c"}

\* ------------------------------------------- src/video_aspect_ratio.go
\* a float64 quotient of two non-negative integers, kept as the pair; d = 0
\* is +Inf (n > 0) or NaN (n = 0)
Rat(n, d) == [n |-> n, d |-> d]

Abs(x) == IF x < 0 THEN -x ELSE x

IsFinite(x) == x.d /= 0

\* |x - t| compared with 1/10 in exact arithmetic, x and t finite
Within(x, t) == 10 * Abs(x.n * t.d - t.n * x.d) < x.d * t.d

OnEdge(x, t) == 10 * Abs(x.n * t.d - t.n * x.d) = x.d * t.d

SameRatio(x, n, d) == x.n * d = n * x.d

\* float64 at the four quotients exactly 1/10 from a target: the rounded
\* difference is below the rounded 0.1 at 151/90, 37/80 and 53/80 and equal
\* to it at 169/90
RoundsBelow(x) ==
    SameRatio(x, 151, 90) \/ SameRatio(x, 37, 80) \/ SameRatio(x, 53, 80)

\* lines 58, 60: math.Abs(ratio - target) < 0.1; with ratio Inf or NaN the
\* comparison is false
Near(x, t) ==
    /\ IsFinite(x)
    /\ Within(x, t) \/ (OnEdge(x, t) /\ RoundsBelow(x))

classify_intDivision(width, height) ==
    LET ratio == IF height = 0 THEN Rat(width, 0)
                 ELSE Rat(width \div height, 1)
    IN  IF Near(ratio, Rat(16, 9)) THEN "16:9"
        ELSE IF Near(ratio, Rat(9, 16)) THEN "9:16"
        ELSE "other"

\* lines 52-64: the label of the first stream's dimensions
classify(width, height) ==
    LET ratio == Rat(width, height)
    IN  IF Near(ratio, Rat(16, 9)) THEN "16:9"
        ELSE IF Near(ratio, Rat(9, 16)) THEN "9:16"
        ELSE "other"

\* lines 29-65
getVideoAspectRatio(runOK, jsonOK, streams) ==
    IF ~runOK THEN [label |-> "", err |-> Ptr("error running ffprobe")]
    ELSE IF ~jsonOK
        THEN [label |-> "", err |-> Ptr("error unmarshaling ffprobe output")]
    ELSE IF Len(streams) = 0
        THEN [label |-> "", err |-> Ptr("no streams found in video file")]
    ELSE [label |-> classify(streams[1].Width, streams[1].Height),
          err |-> Nil]

IdleProbe == [pc |-> "idle", runOK |-> FALSE, jsonOK |-> FALSE,
              streams |-> <<>>, label |-> "", err |-> Nil]

\* widths and heights a decoded stream may carry: small ones, the ones of
\* common frame sizes and the ones whose quotient is 1/10 from a target
Dims == (0..MaxDim) \cup {37, 53, 80, 90, 151, 169, 1000, 1080, 1920}

Stream(w, h) == [Width |-> w, Height |-> h]

Streams ==
    LET first == {Stream(w, h) : w \in Dims, h \in Dims}
        rest == {Stream(0, 0), Stream(1920, 1080)}
    IN  {<<>>} \cup {<<f>> : f \in first}
               \cup {<<f, g>> : f \in first, g \in rest}

IdleSign == [pc |-> "idle", in |-> NoVideo, out |-> NoVideo, err |-> Nil,
             calls |-> <<>>]

Init ==
    /\ db = [id \in {"v1"} |-> Video("v1", "u1", Nil, Nil)]
    /\ s3 = {}
    /\ tmpdir = {}
    /\ assets = <<>>
    /\ req = [r \in Reqs |-> IdleReq]
    /\ updLog = <<>>
    /\ variant \in Variants
    /\ sign = IdleSign
    /\ probe = IdleProbe

Next ==
    \E r \in Reqs :
        \/ VideoBegin(r)
        \/ VideoUpload(r)
        \/ VideoUpdate(r)
        \/ ThumbBegin(r)
        \/ ThumbCreate(r)
        \/ ThumbCopy(r)
        \/ ThumbUpdate(r)
        \/ ThumbCleanup(r)

Spec == Init /\ [][Next]_vars

\* ------------------------------ the handlers serving one request at a time
Alone(r) == \A o \in Reqs \ {r} : req[o].pc \in {"idle", "done"}

NextSeq ==
    \E r \in Reqs :
        \/ Alone(r) /\ VideoBegin(r)
        \/ Alone(r) /\ VideoUpload(r)
        \/ Alone(r) /\ VideoUpdate(r)
        \/ Alone(r) /\ ThumbBegin(r)
        \/ Alone(r) /\ ThumbCreate(r)
        \/ Alone(r) /\ ThumbCopy(r)
        \/ Alone(r) /\ ThumbUpdate(r)
        \/ Alone(r) /\ ThumbCleanup(r)

SpecSeq == Init /\ [][NextSeq]_vars

\* --------------------------------- the signed-URL conversion on its own
Alphabet == {"bkt", "key", ","}

RECURSIVE Strs(_)
Strs(n) ==
    IF n = 0 THEN {<<>>}
    ELSE LET shorter == Strs(n - 1) IN
         shorter \cup {Append(s, c) : s \in shorter, c \in Alphabet}

InitSign ==
    /\ db = [id \in {"v1"} |-> Video("v1", "u1", Nil, Nil)]
    /\ s3 = {}
    /\ tmpdir = {}
    /\ assets = <<>>
    /\ req = [r \in Reqs |-> IdleReq]
    /\ updLog = <<>>
    /\ variant = "a"
    /\ probe = IdleProbe
    /\ \E vurl \in {Nil} \cup {Ptr(s) : s \in Strs(MaxLen)},
          turl \in {Nil, Ptr(<<"http://localhost:", "8091", "/assets/", "t", ".png">>)} :
          sign = [IdleSign EXCEPT !.pc = "ready",
                                  !.in = Video("v1", "u1", vurl, turl)]

SignVideo ==
    /\ sign.pc = "ready"
    /\ \E presignOK \in BOOLEAN :
          LET res == dbVideoToSignedVideo(sign.in, presignOK) IN
          sign' = [sign EXCEPT !.pc = "done", !.out = res.video,
                               !.err = res.err, !.calls = res.calls]
    /\ UNCHANGED <<db, s3, tmpdir, assets, req, updLog, variant, probe>>

NextSign == SignVideo

SpecSign == InitSign /\ [][NextSign]_vars

\* ------------------------------------ the aspect-ratio probe on its own
InitAspect ==
    /\ db = [id \in {"v1"} |-> Video("v1", "u1", Nil, Nil)]
    /\ s3 = {}
    /\ tmpdir = {}
    /\ assets = <<>>
    /\ req = [r \in Reqs |-> IdleReq]
    /\ updLog = <<>>
    /\ variant = "a"
    /\ sign = IdleSign
    /\ \E runOK \in BOOLEAN, jsonOK \in BOOLEAN, streams \in Streams :
          probe = [IdleProbe EXCEPT !.pc = "ready", !.runOK = runOK,
                                    !.jsonOK = jsonOK, !.streams = streams]

ProbeVideo ==
    /\ probe.pc = "ready"
    /\ LET res == getVideoAspectRatio(probe.runOK, probe.jsonOK,
                                      probe.streams)
       IN  probe' = [probe EXCEPT !.pc = "done", !.label = res.label,
                                  !.err = res.err]
    /\ UNCHANGED <<db, s3, tmpdir, assets, req, updLog, variant, sign>>

NextAspect == ProbeVideo

SpecAspect == InitAspect /\ [][NextAspect]_vars

\* ================================================================ claims
VideoReqs == {r \in Reqs : req[r].kind = "video"}

Done(r) == req[r].pc = "done"

LoggedBy(r) == {i \in 1..Len(updLog) : updLog[i].by = r}

Stored(r) == {o \in s3 : o.by = r}

\* the request fetched a record that belongs to somebody else
NonOwner(r) ==
    /\ Has(req[r], "GetVideo")
    /\ req[r].video.UserID /= req[r].userID

\* a step of request r
Steps(r) == req'[r] /= req[r]

\* a video upload authenticated as somebody other than the owner of the
\* fetched record is answered 401 and never calls UpdateVideo
C1_Rejected ==
    \A r \in VideoReqs :
        NonOwner(r) =>
            /\ Done(r) /\ req[r].status = 401
            /\ ~Called(req[r], "UpdateVideo")
            /\ LoggedBy(r) = {}

\* every UpdateVideo of a video upload is issued by a request authenticated
\* as the owner of the record it replaces, and keeps that owner
C1_ByOwner ==
    \A i \in 1..Len(updLog) :
        updLog[i].kind = "video" =>
            /\ updLog[i].user = updLog[i].before.UserID
            /\ updLog[i].user = updLog[i].video.UserID

\* a step of a non-owner's video upload leaves the store as it was
C1_Untouched ==
    \A r \in Reqs :
        (Steps(r) /\ req'[r].kind = "video" /\ NonOwner(r)') => db' = db

\* C1: the three parts together: non-owners are rejected with 401 and call
\* no UpdateVideo, their steps leave the store unchanged, and every
\* UpdateVideo of a video upload comes from the record's owner.
C1_OwnerOnly == [](C1_Rejected /\ C1_ByOwner) /\ [][C1_Untouched]_vars

C1_Witness ==
    \E r \in VideoReqs :
        NonOwner(r) /\ Done(r) /\ req[r].status = 401 /\ req[r].userID = "u2"

\* C2: after a successful video upload the persisted video location is
\* "<bucket>,<key>" for the bucket and key given to PutObject, and splitting
\* it on "," gives back exactly (bucket, key).
C2_LocationRoundTrip ==
    \A r \in VideoReqs :
        (Done(r) /\ req[r].status = 200) =>
            \E o \in Stored(r) :
                /\ db[req[r].videoID].VideoURL /= Nil
                /\ req[r].video.VideoURL = Ptr(o.Bucket \o <<",">> \o o.Key)
                /\ Split(req[r].video.VideoURL[1], ",") = <<o.Bucket, o.Key>>

\* C3: once the temporary file was created, the handler does not return
\* before the file is closed and then removed from the staging directory.
C3_TempFileGone ==
    \A r \in VideoReqs :
        (Done(r) /\ Has(req[r], "os.CreateTemp")) =>
            /\ TempName(r) \notin tmpdir
            /\ Has(req[r], "tempFile.Close") /\ Has(req[r], "os.Remove")
            /\ Pos(req[r], "tempFile.Close") < Pos(req[r], "os.Remove")

C3_Witness ==
    /\ \E r \in VideoReqs :
          Done(r) /\ Has(req[r], "os.CreateTemp") /\ req[r].cause = "copy"
    /\ \E r \in VideoReqs :
          Done(r) /\ Has(req[r], "os.CreateTemp") /\ req[r].status = 200

\* number of separators in a string
Commas(s) == Cardinality({i \in 1..Len(s) : s[i] = ","})

TwoParts(v) == v.VideoURL /= Nil /\ Commas(v.VideoURL[1]) = 1

BeforeComma(s) == SubSeq(s, 1, (CHOOSE i \in 1..Len(s) : s[i] = ",") - 1)

AfterComma(s) == SubSeq(s, (CHOOSE i \in 1..Len(s) : s[i] = ",") + 1, Len(s))

\* C4: a record whose location is nil or has not exactly two parts comes
\* back unchanged, without error, and nothing is presigned.
C4_NothingToSign ==
    (sign.pc = "done" /\ ~TwoParts(sign.in)) =>
        /\ sign.out = sign.in
        /\ sign.err = Nil
        /\ sign.calls = <<>>

C4_Witness ==
    /\ sign.pc = "done"
    /\ sign.in.VideoURL /= Nil
    /\ Commas(sign.in.VideoURL[1]) = 2
    /\ sign.out = sign.in

\* C5: a record whose location has exactly two parts comes back with the
\* location replaced by the URL presigned for (bucket, key) with a one-hour
\* expiry, different from the stored location, every other field kept; when
\* presigning fails the input record comes back with the error.
C5_Signed ==
    (sign.pc = "done" /\ TwoParts(sign.in)) =>
        LET loc == sign.in.VideoURL[1]
            bucket == BeforeComma(loc)
            key == AfterComma(loc)
        IN  /\ sign.calls = << <<bucket, key, "3600s">> >>
            /\ IF sign.err = Nil
               THEN /\ sign.out.VideoURL = Ptr(PresignGetObject(bucket, key, "3600s"))
                    /\ sign.out.VideoURL /= sign.in.VideoURL
                    /\ sign.out = [sign.in EXCEPT !.VideoURL = sign.out.VideoURL]
               ELSE sign.out = sign.in

C5_Witness ==
    /\ sign.pc = "done"
    /\ sign.in.VideoURL = Ptr(<<"bkt", ",", "key">>)
    /\ sign.in.ThumbnailURL /= Nil
    /\ sign.err = Nil
    /\ sign.out.VideoURL /= sign.in.VideoURL

\* the status each class of failure is to be answered with
StatusOf(why) ==
    CASE why \in {"badid", "noform", "toolarge", "badct", "notmp4"} -> 400
      [] why \in {"nojwt", "badjwt", "notowner"} -> 401
      [] why = "notfound" -> 404
      [] why \in {"createtemp", "copy", "seek", "rand", "put", "store"} -> 500
      [] OTHER -> 0

\* C6: every failure of the video upload is answered with the status of its
\* class: client input 400, credential and ownership 401, unknown id 404,
\* I/O, randomness and store failures (in GetVideo or UpdateVideo) 500.
C6_StatusByClass ==
    \A r \in VideoReqs :
        (Done(r) /\ req[r].cause /= "") => req[r].status = StatusOf(req[r].cause)

PosCalled(q, op) ==
    CHOOSE i \in 1..Len(q.trace) : q.trace[i] = op \/ q.trace[i] = op \o "!"

Deferred == {"file.Close", "tempFile.Close", "os.Remove", "destFile.Close"}

\* what the handler still did after it wrote its response
AfterRespond(q) ==
    {q.trace[i] : i \in {j \in 1..Len(q.trace) : j > Pos(q, "respond")}}

\* C7: in the video upload PutObject is called only after the copy and the
\* rewind succeeded, UpdateVideo only after PutObject succeeded and at most
\* once, and after a failure was answered only the deferred releases run.
C7_HardGates ==
    \A r \in VideoReqs :
        LET q == req[r] IN
        /\ Called(q, "PutObject") =>
              /\ Has(q, "io.Copy") /\ Has(q, "Seek")
              /\ Pos(q, "io.Copy") < Pos(q, "Seek")
              /\ Pos(q, "Seek") < PosCalled(q, "PutObject")
        /\ Called(q, "UpdateVideo") =>
              /\ Has(q, "PutObject")
              /\ Pos(q, "PutObject") < PosCalled(q, "UpdateVideo")
        /\ Count(q, "UpdateVideo") + Count(q, "UpdateVideo!") <= 1
        /\ Count(q, "PutObject") + Count(q, "PutObject!") <= 1
        /\ Cardinality(LoggedBy(r)) <= 1
        /\ Stored(r) /= {} => Has(q, "PutObject")
        /\ LoggedBy(r) /= {} => Stored(r) /= {}
        /\ Has(q, "respond") => (Done(r) /\ AfterRespond(q) \subseteq Deferred)
        /\ \A i \in LoggedBy(r) :
              /\ updLog[i].video = q.video
              /\ \E o \in Stored(r) :
                    q.video.VideoURL =
                        Ptr(videoLocation(o.Bucket, s3Region, o.Key))

C7_Witness ==
    /\ \E r \in VideoReqs : Done(r) /\ req[r].cause = "put" /\ LoggedBy(r) = {}
    /\ \E r \in VideoReqs : Done(r) /\ req[r].status = 200

\* C8: a video upload whose declared media type is not video/mp4 is answered
\* 400 and creates no temporary file, stores no object, updates no record.
C8_OnlyMP4 ==
    \A r \in VideoReqs :
        req[r].mediaType \notin {"", "video/mp4"} =>
            /\ Done(r) /\ req[r].status = 400
            /\ ~Called(req[r], "os.CreateTemp") /\ TempName(r) \notin tmpdir
            /\ ~Called(req[r], "PutObject") /\ Stored(r) = {}
            /\ ~Called(req[r], "UpdateVideo") /\ LoggedBy(r) = {}

C8_Witness ==
    \E r \in VideoReqs :
        Done(r) /\ req[r].mediaType = "video/quicktime" /\ req[r].status = 400

\* C9: a video upload whose body exceeds the 1 GiB cap is answered with a
\* client error before the temporary file is created; nothing is stored and
\* no record is updated.
C9_Oversized ==
    \A r \in VideoReqs :
        req[r].bodySize > 1073741824 =>
            /\ Done(r) /\ req[r].status = 400
            /\ ~Called(req[r], "os.CreateTemp") /\ TempName(r) \notin tmpdir
            /\ ~Called(req[r], "PutObject") /\ Stored(r) = {}
            /\ ~Called(req[r], "UpdateVideo") /\ LoggedBy(r) = {}

C9_Witness ==
    /\ \E r \in VideoReqs :
          Done(r) /\ req[r].bodySize = 1073741825 /\ req[r].status = 400
    /\ \E r \in VideoReqs :
          req[r].bodySize = 1073741824 /\ Has(req[r], "os.CreateTemp")

ThumbReqs == {r \in Reqs : req[r].kind = "thumb"}

\* C10: in the thumbnail handlers that write to the asset directory, when
\* UpdateVideo fails after the file was written the handler removes the file
\* and then answers 500; no file of that request is left in the directory.
C10_CleanupOnFailure ==
    \A r \in ThumbReqs :
        (variant \in {"a", "b"} /\ Done(r) /\ Has(req[r], "UpdateVideo!")) =>
            /\ req[r].status = 500
            /\ Has(req[r], "io.Copy")
            /\ Has(req[r], "os.Remove")
            /\ Pos(req[r], "os.Remove") < Pos(req[r], "respond")
            /\ \A p \in DOMAIN assets :
                  assets[p].by /= r /\ assets[p].creator /= r

C10_Witness ==
    \E r \in ThumbReqs :
        /\ variant = "b" /\ Done(r) /\ Has(req[r], "UpdateVideo!")
        /\ req[r].filename \notin DOMAIN assets

\* the request may not touch the record: it belongs to somebody else, or
\* the fetch of the record failed
Refused(r) == NonOwner(r) \/ Has(req[r], "GetVideo!")

\* C11: in every thumbnail variant a request by a non-owner, or for a video
\* id the store does not return, creates or truncates no file in the asset
\* directory and never calls UpdateVideo; a file is created and a record
\* written only after the record was fetched and found to be the caller's.
C11_OwnershipFirst ==
    \A r \in ThumbReqs :
        LET q == req[r] IN
        /\ Refused(r) =>
              /\ Done(r) /\ q.status \in {401, 404}
              /\ ~Called(q, "os.Create") /\ ~Called(q, "UpdateVideo")
              /\ LoggedBy(r) = {}
              /\ \A p \in DOMAIN assets :
                    assets[p].creator /= r /\ assets[p].by /= r
        /\ (Called(q, "os.Create") \/ Called(q, "UpdateVideo")) =>
              /\ Has(q, "GetVideo") /\ q.video.UserID = q.userID
              /\ Called(q, "os.Create") =>
                    Pos(q, "GetVideo") < PosCalled(q, "os.Create")
              /\ Called(q, "UpdateVideo") =>
                    Pos(q, "GetVideo") < PosCalled(q, "UpdateVideo")

C11_Witness ==
    /\ \E r \in ThumbReqs :
          NonOwner(r) /\ Done(r) /\ req[r].status = 401
    /\ \E r \in ThumbReqs :
          Done(r) /\ req[r].status = 200 /\ DOMAIN assets /= {}

\* the successful UpdateVideo calls, in the order the store executed them
OKUpdates == {i \in 1..Len(updLog) : updLog[i].ok}

LastWrite == updLog[CHOOSE i \in OKUpdates : \A j \in OKUpdates : j <= i]

EndsWith(s, t) ==
    Len(s) >= Len(t) /\ SubSeq(s, Len(s) - Len(t) + 1, Len(s)) = t

\* C12: the last writer wins: the stored record is the record given to the
\* UpdateVideo call the store executed last, and when that call came from a
\* video upload its video location names the object that request stored.
C12_LastWriterWins ==
    OKUpdates /= {} =>
        /\ db[LastWrite.video.ID] = LastWrite.video
        /\ LastWrite.kind = "video" =>
              \E o \in Stored(LastWrite.by) :
                  /\ db[LastWrite.video.ID].VideoURL /= Nil
                  /\ EndsWith(db[LastWrite.video.ID].VideoURL[1], o.Key)
                  /\ \A other \in s3 : other.by /= LastWrite.by =>
                        ~EndsWith(db[LastWrite.video.ID].VideoURL[1], other.Key)

\* two video uploads of the same id both succeeded, the one that began its
\* store write second being request 1
C12_Witness ==
    /\ \A r \in {1, 2} :
          req[r].kind = "video" /\ Done(r) /\ req[r].status = 200
          /\ req[r].videoID = "v1"
    /\ Len(updLog) >= 2 /\ updLog[1].by = 2 /\ updLog[2].by = 1
    /\ db["v1"] = req[1].video /\ db["v1"] /= req[2].video

\* the record the store held right after the i-th UpdateVideo call
After(i) == IF i = Len(updLog) THEN db[updLog[i].video.ID]
            ELSE updLog[i + 1].before

\* C13: a video upload whose UpdateVideo fails after PutObject succeeded
\* answers 500 once, calls nothing that deletes the object, which stays in
\* the remote store, leaves the stored record as it was, and has removed its
\* temporary file by the time it returns.
C13_OrphanOnStoreFailure ==
    /\ \A r \in VideoReqs :
          LET q == req[r] IN
          Has(q, "UpdateVideo!") =>
              /\ Has(q, "PutObject")
              /\ Done(r) /\ q.status = 500 /\ q.nResp = 1 /\ q.body = <<>>
              /\ \A i \in 1..Len(q.trace) :
                    q.trace[i] \notin {"DeleteObject", "DeleteObject!"}
              /\ \E o \in Stored(r) : o.Key = q.filename
              /\ TempName(r) \notin tmpdir
              /\ Has(q, "os.Remove")
              /\ \A id \in DOMAIN db :
                    db[id].VideoURL /= Nil =>
                        ~EndsWith(db[id].VideoURL[1], q.filename)
    /\ \A i \in 1..Len(updLog) :
          (updLog[i].kind = "video" /\ ~updLog[i].ok) =>
              After(i) = updLog[i].before

C13_Witness ==
    \E r \in VideoReqs :
        /\ Done(r) /\ Has(req[r], "PutObject") /\ Has(req[r], "UpdateVideo!")
        /\ req[r].status = 500 /\ Stored(r) /= {}
        /\ TempName(r) \notin tmpdir

Statuses == {200, 400, 401, 404, 500}

\* C14: every upload request, video or thumbnail, that has returned wrote
\* exactly one response with a status among 200, 400, 401, 404 and 500; the
\* status is 200 exactly when the request called UpdateVideo and the call
\* succeeded, and the body of a 200 is the record passed to that call.  A
\* request that has not returned has written at most one response.
C14_OneResponse ==
    \A r \in Reqs :
        LET q == req[r] IN
        /\ q.nResp = Count(q, "respond") /\ q.nResp <= 1
        /\ Done(r) =>
              /\ q.nResp = 1
              /\ q.status \in Statuses
              /\ q.status = 200 <=> Has(q, "UpdateVideo")
              /\ Has(q, "UpdateVideo") =>
                    /\ Count(q, "UpdateVideo") = 1
                    /\ \E i \in LoggedBy(r) :
                          updLog[i].ok /\ q.body = <<updLog[i].video>>
              /\ q.status /= 200 => q.body = <<>>

C14_Witness ==
    /\ \E r \in VideoReqs : Done(r) /\ req[r].status = 200
    /\ \E r \in ThumbReqs :
          /\ Done(r) /\ req[r].status = 200
          /\ req[r].body[1].ThumbnailURL /= Nil

\* the probe returned a label for a first stream of positive dimensions
Labelled ==
    /\ probe.pc = "done" /\ probe.err = Nil
    /\ probe.streams[1].Width > 0 /\ probe.streams[1].Height > 0

Labels == {"16:9", "9:16", "other"}

\* |w/h - 16/9| < 1/10 and |w/h - 9/16| < 1/10 over the rationals, h > 0
Wide(w, h) == 10 * Abs(9 * w - 16 * h) < 9 * h

Tall(w, h) == 10 * Abs(16 * w - 9 * h) < 16 * h

ExactLabel(w, h) ==
    IF Wide(w, h) THEN "16:9" ELSE IF Tall(w, h) THEN "9:16" ELSE "other"

\* the quotient is exactly 1/10 from 16/9 or from 9/16
Edge(w, h) ==
    \/ 10 * Abs(9 * w - 16 * h) = 9 * h
    \/ 10 * Abs(16 * w - 9 * h) = 16 * h

C16_SwapSymmetric ==
    Labelled =>
        LET w == probe.streams[1].Width
            h == probe.streams[1].Height
        IN  /\ probe.label = "16:9" <=> classify(h, w) = "9:16"
            /\ probe.label = "other" <=> classify(h, w) = "other"

\* C20: a label is returned without error only when the probe exited zero,
\* its output decoded, the stream list is non-empty and the first stream's
\* width and height are both positive; an empty list or a zero dimension
\* yields an error and no label.
C20_NoLabelFromZero ==
    probe.pc = "done" =>
        /\ probe.err = Nil =>
              /\ probe.runOK /\ probe.jsonOK /\ Len(probe.streams) > 0
              /\ probe.streams[1].Width > 0 /\ probe.streams[1].Height > 0
        /\ (\/ Len(probe.streams) = 0
            \/ probe.streams[1].Width = 0
            \/ probe.streams[1].Height = 0) =>
              probe.err /= Nil /\ probe.label = ""

\* C17: a successful video upload changes only the video location: right
\* after its UpdateVideo every other field of the stored record, the
\* thumbnail location in particular, is what the store held right before it,
\* whatever a concurrent thumbnail upload of the same id committed meanwhile.
C17_OnlyVideoLocation ==
    \A i \in 1..Len(updLog) :
        (updLog[i].kind = "video" /\ updLog[i].ok) =>
            /\ After(i).ThumbnailURL = updLog[i].before.ThumbnailURL
            /\ [After(i) EXCEPT !.VideoURL = updLog[i].before.VideoURL]
                  = updLog[i].before

\* no request is in progress
Quiet == \A r \in Reqs : req[r].pc \in {"idle", "done"}

\* the request whose thumbnail location the store executed last
ThumbWrites == {i \in OKUpdates : updLog[i].kind = "thumb"}

LastThumbWrite == updLog[CHOOSE i \in ThumbWrites : \A j \in ThumbWrites : j <= i]

\* the file name at the end of a thumbnail location
FileOf(url) == SubSeq(url, Len(url) - 1, Len(url))

\* C18: with thumbnails stored under <video-id>.<ext>, after any sequence of
\* thumbnail uploads, failed ones included, the file the record's thumbnail
\* location names exists and holds the complete content written by the last
\* successful upload.
C18_PreviousThumbnailKept ==
    (variant = "a" /\ Quiet /\ ThumbWrites /= {}) =>
        LET url == db[LastThumbWrite.video.ID].ThumbnailURL IN
        /\ url = LastThumbWrite.video.ThumbnailURL
        /\ url /= Nil
        /\ FileOf(url[1]) \in DOMAIN assets
        /\ assets[FileOf(url[1])].full
        /\ assets[FileOf(url[1])].by = LastThumbWrite.by

\* C19: in the variants that store on disk a failed request leaves no file
\* it created or wrote, and once every request has returned every file in
\* the asset directory was written completely by a request that succeeded.
C19_NoFileOfFailedRequest ==
    variant \in {"a", "b"} =>
        /\ \A r \in ThumbReqs :
              (Done(r) /\ req[r].status /= 200) =>
                  \A p \in DOMAIN assets :
                      assets[p].creator /= r /\ assets[p].by /= r
        /\ Quiet =>
              \A p \in DOMAIN assets :
                  /\ assets[p].full
                  /\ assets[p].by \in Reqs
                  /\ req[assets[p].by].status = 200

====
